---- MODULE Spec2Model ----
(***************************************************************************)
(* Model of Twitter_Test_Console/autoPost.js: the TwitterPost class        *)
(* (cookie load/save, login fallback, media preparation, post and reply)   *)
(* and the command-line entry of the file.                                 *)
(*                                                                         *)
(* JavaScript strings are sequences of one-character strings, so that      *)
(* path.extname and String.toLowerCase are computed, not assumed.          *)
(* An optional argument is a record [given, value].                        *)
(* The platform client (agent-twitter-client), tough-cookie and the file   *)
(* system are the environment: each of their calls returns or throws, and  *)
(* the choice is drawn with \E in the action that makes the call.          *)
(***************************************************************************)
EXTENDS Integers, Sequences, FiniteSets, TLC

VARIABLES
    pc,             \* position of the (single, sequential) control flow
    isLoggedIn,     \* this.isLoggedIn
    cookieFile,     \* what is at this.cookiePath on disk
    scraperCookies, \* cookies installed in the platform client by setCookies
    op,             \* the post / replyToTweet call in progress and its arguments
    cookies,        \* local `cookies` of login(): what getCookies returned
    mediaData,      \* local `mediaData` of post / replyToTweet
    sends,          \* the sendTweet calls made by the call in progress
    result,         \* "pending", "true" (returned true) or "thrown"
    h,              \* bookkeeping of the call in progress (what ran, what failed)
    cli,            \* TRUE when the file runs as the main module
    exitCode        \* process.exit code, -1 while the process runs

vars == <<pc, isLoggedIn, cookieFile, scraperCookies, op, cookies, mediaData,
          sends, result, h, cli, exitCode>>

----------------------------------------------------------------------------
(* Bounds of the model *)

\* longest media list passed to post / replyToTweet
MaxMedia == 2
\* longest array in the cookie file
MaxCookies == 2

\* the sequences over S of length at most n
SeqUpTo(S, n) == UNION {[1..k -> S] : k \in 0..n}

----------------------------------------------------------------------------
(* Strings *)

Uppers == <<"A","B","C","D","E","F","G","H","I","J","K","L","M",
            "N","O","P","Q","R","S","T","U","V","W","X","Y","Z">>
Lowers == <<"a","b","c","d","e","f","g","h","i","j","k","l","m",
            "n","o","p","q","r","s","t","u","v","w","x","y","z">>

toLowerChar(c) ==
    IF \E i \in 1..Len(Uppers) : Uppers[i] = c
    THEN Lowers[CHOOSE i \in 1..Len(Uppers) : Uppers[i] = c]
    ELSE c

toLowerCase(s) == [i \in 1..Len(s) |-> toLowerChar(s[i])]

\* index of the last occurrence of character c in s, 0 when there is none
LastIndexOf(s, c) ==
    IF \E i \in 1..Len(s) : s[i] = c
    THEN CHOOSE i \in 1..Len(s) : s[i] = c /\ \A j \in (i+1)..Len(s) : s[j] # c
    ELSE 0

basename(p) == SubSeq(p, LastIndexOf(p, "/") + 1, Len(p))

\* path.extname: from the last "." of the base name to the end; empty when the
\* base name has no "." or only a leading one
extname(p) ==
    LET b == basename(p)
        d == LastIndexOf(b, ".")
    IN  IF d <= 1 THEN <<>> ELSE SubSeq(b, d, Len(b))

Undefined == [given |-> FALSE, value |-> <<>>]
Given(v) == [given |-> TRUE, value |-> v]

----------------------------------------------------------------------------
(* Media Loader *)

NoMime == "null"

mimeTypes ==
    (<< ".", "j", "p", "g" >>      :> "image/jpeg") @@
    (<< ".", "j", "p", "e", "g" >> :> "image/jpeg") @@
    (<< ".", "p", "n", "g" >>      :> "image/png") @@
    (<< ".", "g", "i", "f" >>      :> "image/gif") @@
    (<< ".", "m", "p", "4" >>      :> "video/mp4") @@
    (<< ".", "m", "o", "v" >>      :> "video/quicktime")

getMimeType(filePath) ==
    LET ext == toLowerCase(extname(filePath))
    IN  IF ext \in DOMAIN mimeTypes THEN mimeTypes[ext] ELSE NoMime

\* what the file system holds at a path when prepareMediaData looks at it
FileStates == {"missing", "unreadable", "ok"}

\* fs.readFile(filePath): the content read from a readable file
readFile(filePath) == [bytesOf |-> filePath]

\* the for loop of prepareMediaData from index i on, acc being mediaData so far;
\* threw is set when fs.readFile rejects, which leaves the loop for the catch
RECURSIVE prepareLoop(_, _, _, _)
prepareLoop(mediaFiles, disk, i, acc) ==
    IF i > Len(mediaFiles) THEN [threw |-> FALSE, data |-> acc]
    ELSE LET filePath == mediaFiles[i] IN
         IF disk[filePath] = "missing"
         THEN prepareLoop(mediaFiles, disk, i + 1, acc)
         ELSE IF disk[filePath] = "unreadable"
         THEN [threw |-> TRUE, data |-> acc]
         ELSE IF getMimeType(filePath) = NoMime
         THEN prepareLoop(mediaFiles, disk, i + 1, acc)
         ELSE prepareLoop(mediaFiles, disk, i + 1,
                  Append(acc, [data |-> readFile(filePath),
                               mediaType |-> getMimeType(filePath)]))

prepareMediaData(mediaFiles, disk) ==
    LET r == prepareLoop(mediaFiles, disk, 1, <<>>)
    IN  IF r.threw THEN <<>> ELSE r.data

----------------------------------------------------------------------------
(* Cookie Store *)

\* An entry of the JSON array in the cookie file:
\*   kind "object": a serialized cookie, Cookie.fromJSON returns a Cookie
\*   kind "null"  : a value Cookie.fromJSON returns null for
\*   kind "poison": a value Cookie.fromJSON throws on
CookieEntries ==
    { [kind |-> "object", key |-> "auth_token"],
      [kind |-> "null",   key |-> ""],
      [kind |-> "poison", key |-> ""] }

\* What is at cookiePath:
\*   "missing"   : existsSync is false
\*   "unreadable": the file exists and fs.readFile rejects
\*   "empty"     : zero bytes, JSON.parse throws
\*   "garbage"   : not JSON, JSON.parse throws
\*   "object"    : JSON that is no array, cookiesJson.map is not a function
\*   "array"     : a JSON array, its entries in `entries`
File(st, es) == [state |-> st, entries |-> es]

CookieFiles ==
    { File(st, <<>>) : st \in {"missing", "unreadable", "empty", "garbage", "object"} }
    \cup { File("array", es) : es \in SeqUpTo(CookieEntries, MaxCookies) }

\* a Cookie object, or the null the map callback returns
CookieObj(k) == [isNull |-> FALSE, key |-> k]
NullCookie == [isNull |-> TRUE, key |-> ""]

\* the callback of cookiesJson.map: Cookie.fromJSON, null when it throws
fromJSONorNull(cookieData) ==
    IF cookieData.kind = "object" THEN CookieObj(cookieData.key) ELSE NullCookie

\* cookie.toJSON()
toJSON(cookie) == [kind |-> "object", key |-> cookie.key]

NotNull(cookie) == ~cookie.isNull

\* parseCookies with the per-entry try/catch lost: one entry that does not parse
\* discards the whole array
parseCookiesAllOrNothing(cookiesJson) ==
    IF \A i \in 1..Len(cookiesJson) : cookiesJson[i].kind = "object"
    THEN [i \in 1..Len(cookiesJson) |-> fromJSONorNull(cookiesJson[i])]
    ELSE <<>>

\* cookiesJson.map(...).filter(cookie => cookie !== null)
parseCookies(cookiesJson) ==
    SelectSeq([i \in 1..Len(cookiesJson) |-> fromJSONorNull(cookiesJson[i])], NotNull)

\* loadCookies as a function of the file, the client's cookies, the flag and the
\* environment's answers: setOk (setCookies resolves), live (what the client's
\* isLoggedIn() does: "true", "false" or "throw").
\* threw: an error leaves loadCookies; setCalls: the arguments of its setCookies calls.
loadCookies(file, jar, loggedIn, setOk, live) ==
    IF file.state = "missing"
    THEN [threw |-> FALSE, isLoggedIn |-> loggedIn, jar |-> jar, setCalls |-> <<>>]
    ELSE IF file.state # "array"
    THEN [threw |-> FALSE, isLoggedIn |-> FALSE, jar |-> jar, setCalls |-> <<>>]
    ELSE LET cs == parseCookies(file.entries) IN
         IF Len(cs) > 0
         THEN IF ~setOk
              THEN [threw |-> FALSE, isLoggedIn |-> FALSE, jar |-> jar,
                    setCalls |-> <<cs>>]
              ELSE [threw |-> FALSE, isLoggedIn |-> (live = "true"), jar |-> cs,
                    setCalls |-> <<cs>>]
         ELSE [threw |-> FALSE, isLoggedIn |-> FALSE, jar |-> jar, setCalls |-> <<>>]

\* saveCookies with its catch rethrowing
saveCookiesRethrows(file, cs, write) ==
    [threw |-> write # "ok",
     file  |-> IF write = "ok"
               THEN File("array", [i \in 1..Len(cs) |-> toJSON(cs[i])])
               ELSE IF write = "truncated" THEN File("empty", <<>>) ELSE file]

\* saveCookies as a function of the outcome of fs.writeFile ("ok", "failed": the
\* file is untouched, "truncated": the write failed after emptying the file):
\* threw: an error leaves saveCookies; file: the file afterwards
saveCookies(file, cs, write) ==
    [threw |-> FALSE,
     file  |-> IF write = "ok"
               THEN File("array", [i \in 1..Len(cs) |-> toJSON(cs[i])])
               ELSE IF write = "truncated" THEN File("empty", <<>>) ELSE file]

\* the cookies a successful login makes the client hold (getCookies)
FreshCookies == <<CookieObj("auth_token"), CookieObj("ct0")>>

----------------------------------------------------------------------------
(* Session Manager *)

\* the isLoggedIn test of post / replyToTweet lost
neverInitialize(loggedIn) == FALSE

\* post / replyToTweet: if (!this.isLoggedIn) await this.initialize()
needsInitialize(loggedIn) == ~loggedIn

\* the isLoggedIn test of initialize lost: login() after every cookie load
alwaysLogin(loggedIn) == TRUE

\* initialize: if (!this.isLoggedIn) await this.login()
needsLogin(loggedIn) == ~loggedIn

\* login() with its catch swallowing the error
loginAttemptSwallows(loggedIn, platformOk) ==
    [threw |-> FALSE, flag |-> IF platformOk THEN TRUE ELSE loggedIn]

\* the try block of login() up to the flag, as a function of whether scraper.login
\* resolves: threw: login() rethrows; flag: this.isLoggedIn afterwards
loginAttempt(loggedIn, platformOk) ==
    IF platformOk THEN [threw |-> FALSE, flag |-> TRUE]
                  ELSE [threw |-> TRUE, flag |-> loggedIn]

----------------------------------------------------------------------------
(* Post Dispatcher *)

SendArgs(text, replyTo, media) == [text |-> text, replyTo |-> replyTo, media |-> media]

\* post: mediaFiles.length === 0 sends at once, without prepareMediaData
skipsMediaLoader(kind, mediaFiles) == kind = "post" /\ Len(mediaFiles) = 0

\* post without the text-only fallback
postSendArgsNoFallback(text, mediaFiles, data) ==
    IF Len(mediaFiles) = 0 THEN SendArgs(text, Undefined, Undefined)
    ELSE SendArgs(text, Undefined, Given(data))

\* the arguments of the sendTweet call of post
postSendArgs(text, mediaFiles, data) ==
    IF Len(mediaFiles) = 0 THEN SendArgs(text, Undefined, Undefined)
    ELSE IF Len(data) > 0 THEN SendArgs(text, Undefined, Given(data))
    ELSE SendArgs(text, Undefined, Undefined)

\* replyToTweet with the text-only fallback of post
replySendArgsFallback(tweetId, text, data) ==
    IF Len(data) > 0 THEN SendArgs(text, Given(tweetId), Given(data))
    ELSE SendArgs(text, Given(tweetId), Undefined)

\* the arguments of the sendTweet call of replyToTweet
replySendArgs(tweetId, text, data) == SendArgs(text, Given(tweetId), Given(data))

----------------------------------------------------------------------------
(* Command line *)

Empty == <<>>
Tweet == <<"t", "w", "e", "e", "t">>
TweetMixed == <<"T", "w", "e", "e", "t">>
Reply == <<"r", "e", "p", "l", "y">>
ReplyUpper == <<"R", "E", "P", "L", "Y">>
Unknown == <<"l", "i", "k", "e">>

\* JavaScript's !x for an optional string: undefined or ""
falsy(x) == ~x.given \/ x.value = <<>>

\* element i of an array, undefined past its end
At(a, i) == IF i <= Len(a) THEN Given(a[i]) ELSE Undefined

\* a.slice(n): what a rest pattern binds after n elements
Rest(a, n) == SubSeq(a, n + 1, Len(a))

ExitNow == [exit |-> TRUE, kind |-> "none", text |-> <<>>, tweetId |-> <<>>,
            mediaFiles |-> <<>>]

\* the top-level code of the main module as a function of process.argv.slice(2):
\* exit: process.exit(1) before any call; else the call it makes on the poster
cliMain(argv) ==
    LET command == At(argv, 1)
        args == Rest(argv, 1)
    IN  IF falsy(command) THEN ExitNow
        ELSE IF toLowerCase(command.value) = Tweet
        THEN IF falsy(At(args, 1)) THEN ExitNow
             ELSE [exit |-> FALSE, kind |-> "post", text |-> args[1],
                   tweetId |-> <<>>, mediaFiles |-> Rest(args, 1)]
        ELSE IF toLowerCase(command.value) = Reply
        THEN IF falsy(At(args, 1)) \/ falsy(At(args, 2)) THEN ExitNow
             ELSE [exit |-> FALSE, kind |-> "reply", text |-> args[2],
                   tweetId |-> args[1], mediaFiles |-> Rest(args, 2)]
        ELSE ExitNow

\* the catch handler exiting 0 as the then handler does
exitCodeAlwaysZero(res) == 0

\* .then(() => process.exit(0)).catch(... process.exit(1))
exitCodeOf(res) == IF res = "true" THEN 0 ELSE 1

----------------------------------------------------------------------------
(* Inputs *)

Texts == { <<"h", "i">> }
TweetIds == { <<"4", "2">> }
Paths == { <<"a", ".", "p", "n", "g">>,
           <<"B", ".", "J", "P", "G">>,
           <<"n", ".", "t", "x", "t">> }
MediaLists == SeqUpTo(Paths, MaxMedia)

\* the media lists given on the command line
CliMediaLists ==
    { <<>>,
      << <<"a", ".", "p", "n", "g">> >>,
      << <<"n", ".", "t", "x", "t">>, <<"B", ".", "J", "P", "G">> >> }

CliArgvs ==
    { <<>>, <<Empty>>, <<Unknown>>, <<Tweet>>, <<Tweet, Empty>>, <<Reply>> }
    \cup { <<Reply, id>> : id \in TweetIds }
    \cup { <<Reply, Empty, t>> : t \in Texts }
    \cup { <<Reply, id, Empty>> : id \in TweetIds }
    \cup { <<Unknown, t>> : t \in Texts }
    \cup { <<c, t>> \o m : c \in {Tweet, TweetMixed}, t \in Texts, m \in CliMediaLists }
    \cup { <<c, id, t>> \o m :
             c \in {Reply, ReplyUpper}, id \in TweetIds, t \in Texts,
             m \in CliMediaLists }

----------------------------------------------------------------------------
(* State *)

NoOp == [kind |-> "none", text |-> <<>>, tweetId |-> <<>>, mediaFiles |-> <<>>,
         argv |-> <<>>]

\* bookkeeping at the start of a call
H0 == [entryAuth |-> FALSE,          \* this.isLoggedIn when the call was made
       initialize |-> "none",        \* initialize(): none, running, done, threw
       loads |-> 0,                  \* loadCookies runs
       fileAtLoad |-> File("missing", <<>>),
       setCalls |-> <<>>,            \* arguments of the setCookies calls
       loadedLive |-> FALSE,         \* cookies were installed and reported live
       loadThrew |-> FALSE,
       logins |-> 0,                 \* scraper.login calls
       loginFailed |-> FALSE,        \* scraper.login rejected
       getCookiesFailed |-> FALSE,   \* scraper.getCookies rejected
       writes |-> 0,                 \* fs.writeFile calls on the cookie file
       saveFailed |-> FALSE,         \* fs.writeFile rejected
       prepared |-> FALSE,           \* prepareMediaData ran
       disk |-> <<>>]                \* what the disk held for each media path

Init ==
    /\ cli \in BOOLEAN
    /\ pc = IF cli THEN "main" ELSE "idle"
    /\ isLoggedIn = FALSE
    /\ cookieFile \in CookieFiles
    /\ scraperCookies = <<>>
    /\ op = NoOp
    /\ cookies = <<>>
    /\ mediaData = <<>>
    /\ sends = <<>>
    /\ result = "pending"
    /\ h = H0
    /\ exitCode = -1

\* entry of post / replyToTweet up to the isLoggedIn test
Begin(kind, text, tweetId, mediaFiles, argv) ==
    /\ op' = [kind |-> kind, text |-> text, tweetId |-> tweetId,
              mediaFiles |-> mediaFiles, argv |-> argv]
    /\ h' = [H0 EXCEPT !.entryAuth = isLoggedIn]
    /\ pc' = IF needsInitialize(isLoggedIn) THEN "loadCookies" ELSE "dispatch"
    /\ cookies' = <<>>
    /\ mediaData' = <<>>
    /\ sends' = <<>>
    /\ result' = "pending"
    /\ UNCHANGED <<isLoggedIn, cookieFile, scraperCookies>>

\* an error leaves the call: every catch on the way logs and rethrows
Throw(hh) ==
    /\ pc' = "returned"
    /\ result' = "thrown"
    /\ h' = hh

----------------------------------------------------------------------------
(* Actions *)

\* a host module calls poster.post(text, mediaFiles)
Post ==
    /\ pc = "idle"
    /\ \E text \in Texts, mediaFiles \in MediaLists :
           Begin("post", text, <<>>, mediaFiles, <<>>)
    /\ UNCHANGED <<cli, exitCode>>

\* a host module calls poster.replyToTweet(tweetId, text, mediaFiles)
ReplyToTweet ==
    /\ pc = "idle"
    /\ \E tweetId \in TweetIds, text \in Texts, mediaFiles \in MediaLists :
           Begin("reply", text, tweetId, mediaFiles, <<>>)
    /\ UNCHANGED <<cli, exitCode>>

\* the file runs as the main module
CliMain ==
    /\ pc = "main"
    /\ \E argv \in CliArgvs :
         LET m == cliMain(argv) IN
         IF m.exit
         THEN /\ pc' = "exited"
              /\ exitCode' = 1
              /\ op' = [NoOp EXCEPT !.argv = argv]
              /\ UNCHANGED <<isLoggedIn, cookieFile, scraperCookies, cookies,
                             mediaData, sends, result, h>>
         ELSE /\ Begin(m.kind, m.text, m.tweetId, m.mediaFiles, argv)
              /\ UNCHANGED exitCode
    /\ UNCHANGED cli

\* initialize: await this.loadCookies()
LoadCookies ==
    /\ pc = "loadCookies"
    /\ \E setOk \in BOOLEAN, live \in {"true", "false", "throw"} :
         LET r == loadCookies(cookieFile, scraperCookies, isLoggedIn, setOk, live)
             hh == [h EXCEPT !.initialize = IF r.threw THEN "threw" ELSE "running",
                             !.loads = @ + 1,
                             !.fileAtLoad = cookieFile,
                             !.setCalls = @ \o r.setCalls,
                             !.loadedLive = cookieFile.state = "array" /\ setOk
                                            /\ live = "true"
                                            /\ \E i \in 1..Len(cookieFile.entries) :
                                                 cookieFile.entries[i].kind = "object",
                             !.loadThrew = r.threw]
         IN  /\ isLoggedIn' = r.isLoggedIn
             /\ scraperCookies' = r.jar
             /\ IF r.threw THEN Throw(hh)
                ELSE pc' = "checkLogin" /\ h' = hh /\ UNCHANGED result
    /\ UNCHANGED <<cookieFile, op, cookies, mediaData, sends, cli, exitCode>>

\* initialize: if (!this.isLoggedIn) await this.login()
CheckLogin ==
    /\ pc = "checkLogin"
    /\ IF needsLogin(isLoggedIn)
       THEN pc' = "login" /\ UNCHANGED h
       ELSE pc' = "dispatch" /\ h' = [h EXCEPT !.initialize = "done"]
    /\ UNCHANGED <<isLoggedIn, cookieFile, scraperCookies, op, cookies, mediaData,
                   sends, result, cli, exitCode>>

\* login: await this.scraper.login(...); this.isLoggedIn = true
Login ==
    /\ pc = "login"
    /\ \E platformOk \in BOOLEAN :
         LET r == loginAttempt(isLoggedIn, platformOk)
             hh == [h EXCEPT !.logins = @ + 1, !.loginFailed = ~platformOk]
         IN  /\ isLoggedIn' = r.flag
             /\ IF r.threw THEN Throw([hh EXCEPT !.initialize = "threw"])
                ELSE pc' = "getCookies" /\ h' = hh /\ UNCHANGED result
    /\ UNCHANGED <<cookieFile, scraperCookies, op, cookies, mediaData, sends, cli,
                   exitCode>>

\* login: const cookies = await this.scraper.getCookies()
GetCookies ==
    /\ pc = "getCookies"
    /\ \E ok \in BOOLEAN :
         IF ok
         THEN /\ cookies' = FreshCookies
              /\ pc' = "saveCookies"
              /\ UNCHANGED <<h, result>>
         ELSE /\ Throw([h EXCEPT !.getCookiesFailed = TRUE, !.initialize = "threw"])
              /\ UNCHANGED cookies
    /\ UNCHANGED <<isLoggedIn, cookieFile, scraperCookies, op, mediaData, sends, cli,
                   exitCode>>

\* login: await this.saveCookies(cookies), then back through initialize
SaveCookies ==
    /\ pc = "saveCookies"
    /\ \E write \in {"ok", "failed", "truncated"} :
         LET r == saveCookies(cookieFile, cookies, write)
             hh == [h EXCEPT !.writes = @ + 1, !.saveFailed = write # "ok"]
         IN  /\ cookieFile' = r.file
             /\ IF r.threw THEN Throw([hh EXCEPT !.initialize = "threw"])
                ELSE /\ pc' = "dispatch"
                     /\ h' = [hh EXCEPT !.initialize = "done"]
                     /\ UNCHANGED result
    /\ UNCHANGED <<isLoggedIn, scraperCookies, op, cookies, mediaData, sends, cli,
                   exitCode>>

\* post: if (mediaFiles.length === 0) ...; replyToTweet always prepares
Dispatch ==
    /\ pc = "dispatch"
    /\ pc' = IF skipsMediaLoader(op.kind, op.mediaFiles) THEN "send" ELSE "prepare"
    /\ UNCHANGED <<isLoggedIn, cookieFile, scraperCookies, op, cookies, mediaData,
                   sends, result, h, cli, exitCode>>

\* const mediaData = await this.prepareMediaData(mediaFiles)
Prepare ==
    /\ pc = "prepare"
    /\ \E disk \in [{op.mediaFiles[i] : i \in 1..Len(op.mediaFiles)} -> FileStates] :
         /\ mediaData' = prepareMediaData(op.mediaFiles, disk)
         /\ h' = [h EXCEPT !.prepared = TRUE, !.disk = disk]
    /\ pc' = "send"
    /\ UNCHANGED <<isLoggedIn, cookieFile, scraperCookies, op, cookies, sends, result,
                   cli, exitCode>>

\* await this.scraper.sendTweet(...); return true
Send ==
    /\ pc = "send"
    /\ \E ok \in BOOLEAN :
         LET args == IF op.kind = "post"
                     THEN postSendArgs(op.text, op.mediaFiles, mediaData)
                     ELSE replySendArgs(op.tweetId, op.text, mediaData)
         IN  /\ sends' = Append(sends, [args |-> args, auth |-> isLoggedIn, ok |-> ok])
             /\ result' = IF ok THEN "true" ELSE "thrown"
    /\ pc' = "returned"
    /\ UNCHANGED <<isLoggedIn, cookieFile, scraperCookies, op, cookies, mediaData, h,
                   cli, exitCode>>

\* the call settles in the host module, which may call again
Return ==
    /\ pc = "returned"
    /\ ~cli
    /\ pc' = "idle"
    /\ op' = NoOp
    /\ cookies' = <<>>
    /\ mediaData' = <<>>
    /\ sends' = <<>>
    /\ result' = "pending"
    /\ h' = H0
    /\ UNCHANGED <<isLoggedIn, cookieFile, scraperCookies, cli, exitCode>>

\* the call settles in the main module: process.exit
Exit ==
    /\ pc = "returned"
    /\ cli
    /\ pc' = "exited"
    /\ exitCode' = exitCodeOf(result)
    /\ UNCHANGED <<isLoggedIn, cookieFile, scraperCookies, op, cookies, mediaData,
                   sends, result, h, cli>>

Next ==
    \/ Post
    \/ ReplyToTweet
    \/ CliMain
    \/ LoadCookies
    \/ CheckLogin
    \/ Login
    \/ GetCookies
    \/ SaveCookies
    \/ Dispatch
    \/ Prepare
    \/ Send
    \/ Return
    \/ Exit

Spec == Init /\ [][Next]_vars

----------------------------------------------------------------------------
(* Properties *)

Finished == pc \in {"returned", "exited"}

\* C1: sendTweet is called only while isLoggedIn is true; a call entered with
\* isLoggedIn false sends only after initialize() has run and returned normally.
C1_SendOnlyWhenAuthenticated ==
    /\ pc = "send" => isLoggedIn
    /\ \A i \in 1..Len(sends) : sends[i].auth
    /\ (pc = "send" \/ sends # <<>>) /\ ~h.entryAuth => h.initialize = "done"

C1_Witness ==
    /\ pc = "returned"
    /\ ~h.entryAuth
    /\ h.initialize = "done"
    /\ Len(sends) = 1
    /\ sends[1].auth

\* C2: scraper.login is called only with isLoggedIn false after the cookie load;
\* when the stored cookies were installed and reported live, the call makes no login
\* and no write of the cookie file, which stays as it was; the cookie file is
\* written only after a login; and a call entered with isLoggedIn true makes no
\* cookie load, no login and no write of the cookie file.
C2_LoginOnlyWhenUnauthenticated ==
    /\ pc = "login" => ~isLoggedIn /\ h.loads = 1 /\ ~h.loadedLive
    /\ h.loadedLive => h.logins = 0 /\ h.writes = 0 /\ cookieFile = h.fileAtLoad
    /\ h.writes <= h.logins
    /\ h.entryAuth => h.loads = 0 /\ h.logins = 0 /\ h.writes = 0

C2_Witness ==
    /\ pc = "returned"
    /\ h.loadedLive
    /\ result = "true"
    /\ h.logins = 0

\* the cookie-file conditions that count as absent
BadCookieFile(f) ==
    \/ f.state # "array"
    \/ \A i \in 1..Len(f.entries) : f.entries[i].kind # "object"

IsObjectEntry(e) == e.kind = "object"

\* the Cookie objects of the entries that are serialized cookies, in file order
ValidCookies(es) ==
    LET v == SelectSeq(es, IsObjectEntry)
    IN  [i \in 1..Len(v) |-> CookieObj(v[i].key)]

\* C3: loadCookies never throws; on a missing, unreadable, empty, unparseable or
\* non-array file, or an array with no valid entry, it calls setCookies not at all,
\* leaves isLoggedIn false, and initialize() goes on to login(); on an array with a
\* valid entry it calls setCookies once with exactly the valid entries, in order.
C3_BadCookieFileIsAbsent ==
    /\ ~h.loadThrew
    /\ h.loads >= 1 /\ BadCookieFile(h.fileAtLoad) =>
          /\ h.setCalls = <<>>
          /\ pc = "checkLogin" => ~isLoggedIn
          /\ pc \notin {"checkLogin", "login"} => h.logins = 1
    /\ h.loads >= 1 /\ ~BadCookieFile(h.fileAtLoad) =>
          h.setCalls = << ValidCookies(h.fileAtLoad.entries) >>

C3_Witness ==
    /\ h.loads = 1
    /\ h.fileAtLoad.state = "array"
    /\ Len(h.fileAtLoad.entries) = 2
    /\ \E i, j \in 1..2 : /\ h.fileAtLoad.entries[i].kind = "object"
                          /\ h.fileAtLoad.entries[j].kind # "object"
    /\ Len(h.setCalls) = 1
    /\ Len(h.setCalls[1]) = 1

\* C4: when the write of the cookie file fails after a successful login, login()
\* and initialize() return normally with isLoggedIn true, the call goes on to its
\* one send, and it returns true unless that send itself fails.
C4_SaveFailureDoesNotAbort ==
    h.saveFailed =>
        /\ isLoggedIn
        /\ h.initialize = "done"
        /\ pc \in {"dispatch", "prepare", "send", "returned", "exited"}
        /\ Finished => /\ Len(sends) = 1
                       /\ result = IF sends[1].ok THEN "true" ELSE "thrown"

C4_Witness ==
    /\ h.saveFailed
    /\ pc = "returned"
    /\ result = "true"
    /\ Len(sends) = 1

\* C5: when scraper.login rejects, the call ends with the error thrown, after
\* exactly one login attempt and without any sendTweet.
C5_LoginFailureIsFatal ==
    h.loginFailed =>
        /\ Finished
        /\ result = "thrown"
        /\ h.logins = 1
        /\ sends = <<>>

C5_Witness ==
    /\ h.loginFailed
    /\ pc = "returned"
    /\ result = "thrown"

\* C6: post with a non-empty media list makes at most one sendTweet, exactly one
\* once the media are prepared and the call is over; the send carries the text and
\* no reply target, no attachments argument when preparation returned none and
\* exactly the prepared attachments otherwise; post returns true when it resolves.
C6_PostFallsBackToTextOnly ==
    op.kind = "post" /\ Len(op.mediaFiles) > 0 =>
        /\ Len(sends) <= 1
        /\ sends # <<>> => h.prepared
        /\ Finished /\ h.prepared => Len(sends) = 1
        /\ \A i \in 1..Len(sends) :
              /\ sends[i].args.text = op.text
              /\ sends[i].args.replyTo = Undefined
              /\ sends[i].args.media =
                    IF mediaData = <<>> THEN Undefined ELSE Given(mediaData)
              /\ sends[i].ok => result = "true"

C6_Witness ==
    /\ op.kind = "post"
    /\ Len(op.mediaFiles) > 0
    /\ h.prepared
    /\ mediaData = <<>>
    /\ Len(sends) = 1
    /\ sends[1].args = SendArgs(op.text, Undefined, Undefined)
    /\ result = "true"

\* C7: replyToTweet makes at most one sendTweet, exactly one when it returns true
\* or once the media are prepared and the call is over; the send targets tweetId
\* and passes the prepared attachments as they are, also when there are none; when
\* the send rejects, the call throws.
C7_ReplyAlwaysSendsPrepared ==
    op.kind = "reply" =>
        /\ Len(sends) <= 1
        /\ sends # <<>> => h.prepared
        /\ Finished /\ (h.prepared \/ result = "true") => Len(sends) = 1
        /\ \A i \in 1..Len(sends) :
              /\ sends[i].args = SendArgs(op.text, Given(op.tweetId), Given(mediaData))
              /\ result = IF sends[i].ok THEN "true" ELSE "thrown"

C7_Witness ==
    /\ op.kind = "reply"
    /\ Len(op.mediaFiles) > 0
    /\ mediaData = <<>>
    /\ Len(sends) = 1
    /\ sends[1].args.media = Given(<<>>)
    /\ sends[1].args.replyTo = Given(op.tweetId)
    /\ result = "true"

IsUsable(filePath, disk) == disk[filePath] = "ok" /\ getMimeType(filePath) # NoMime

\* one attachment for each path that exists, can be read and has a supported
\* extension, in input order
RECURSIVE UsableAttachments(_, _)
UsableAttachments(mediaFiles, disk) ==
    IF mediaFiles = <<>> THEN <<>>
    ELSE (IF IsUsable(Head(mediaFiles), disk)
          THEN << [data |-> readFile(Head(mediaFiles)),
                   mediaType |-> getMimeType(Head(mediaFiles))] >>
          ELSE <<>>) \o UsableAttachments(Tail(mediaFiles), disk)

\* C8: prepareMediaData returns, in input order, exactly one attachment for each
\* path that exists, can be read and has a supported extension, whatever the other
\* paths are.
C8_PrepareExcludesOnlyFailingPaths ==
    h.prepared => mediaData = UsableAttachments(op.mediaFiles, h.disk)

NoCommand(argv) == Len(argv) = 0

UnknownCommand(argv) ==
    Len(argv) >= 1 /\ toLowerCase(argv[1]) \notin {Tweet, Reply}

MissingArgument(argv) ==
    /\ Len(argv) >= 1
    /\ \/ toLowerCase(argv[1]) = Tweet /\ Len(argv) < 2
       \/ toLowerCase(argv[1]) = Reply /\ Len(argv) < 3

Rejected(argv) == NoCommand(argv) \/ UnknownCommand(argv) \/ MissingArgument(argv)

\* C9: the process exits 0 only after a sendTweet that resolved; it exits 1 when
\* there is no command, an unknown command or a missing argument, and then without
\* any cookie load, login, cookie write or send; it exits 1 when post or
\* replyToTweet throws.
C9_CliExitProtocol ==
    cli =>
        /\ exitCode = 0 => /\ pc = "exited"
                           /\ result = "true"
                           /\ Len(sends) = 1
                           /\ sends[1].ok
        /\ Rejected(op.argv) => /\ pc \in {"main", "exited"}
                                /\ h = H0
                                /\ sends = <<>>
        /\ pc = "exited" /\ Rejected(op.argv) => exitCode = 1
        /\ pc = "exited" /\ result = "thrown" => exitCode = 1

C9_Witness ==
    /\ cli
    /\ pc = "exited"
    /\ result = "thrown"
    /\ exitCode = 1
    /\ Len(sends) = 1

\* C10: when login() throws, because scraper.login or scraper.getCookies rejected,
\* isLoggedIn is false afterwards.
C10_FailedLoginLeavesUnauthenticated ==
    Finished /\ (h.loginFailed \/ h.getCookiesFailed) => ~isLoggedIn

====
